---- MODULE Spec2Model ----
(***************************************************************************)
(* Model of the weather plugin (src/__init__.py): the two host-callable    *)
(* actions query_weather and query_weather_forecast, the two-request       *)
(* pipeline _get_weather_from_amap and the renderer _format_weather_result.*)
(*                                                                         *)
(* Python values (the decoded JSON bodies, the data dict) are tagged       *)
(* records [t |-> tag, v |-> payload]:                                     *)
(*   "null" None, "num" an int, "str" a sequence of characters,            *)
(*   "list" a sequence of values, "dict" a function from keys to values.   *)
(* A text (a Python str that is built or returned) is a sequence of atoms: *)
(* a character of an interpolated value, or a fragment of a literal of the *)
(* source, written in ASCII and named where a definition gives it.         *)
(***************************************************************************)
EXTENDS Integers, Sequences, FiniteSets, TLC

VARIABLES config, inv, clients, fmt

vars == <<config, inv, clients, fmt>>

-----------------------------------------------------------------------------
(* Bounds of the model *)

\* longest city argument, in characters
MaxCityLen == 2
\* days ranges over (MIN_DAYS - DaysSlack) .. (MAX_DAYS + DaysSlack)
DaysSlack == 1
\* most forecast day entries (casts) in a provider response
MaxCasts == 4
\* invocations the host may have in flight at once
NumInv == 2

(* Program constants *)

\* days = min(max(days, 1), 7)
MIN_DAYS == 1
MAX_DAYS == 7
\* casts[:3]
FORECAST_SLICE == 3
\* TIMEOUT: int = Field(default=10, ...)
TIMEOUT == 10

-----------------------------------------------------------------------------
(* Python values *)

None == [t |-> "null", v |-> 0]
PyNum(n) == [t |-> "num", v |-> n]
PyStr(chars) == [t |-> "str", v |-> chars]
PyList(seq) == [t |-> "list", v |-> seq]
PyDict(f) == [t |-> "dict", v |-> f]
EmptyDict == [k \in {} |-> None]

\* bool(x)
Truthy(x) ==
    CASE x.t = "null" -> FALSE
      [] x.t = "num" -> x.v # 0
      [] x.t = "str" -> Len(x.v) > 0
      [] x.t = "list" -> Len(x.v) > 0
      [] x.t = "dict" -> DOMAIN x.v # {}

\* x.get(...) raises AttributeError unless x is a dict
GetRaises(x) == x.t # "dict"

\* x.get(key, default) of a dict x
Get(x, key, default) == IF key \in DOMAIN x.v THEN x.v[key] ELSE default

\* the exception x[0] raises, "" when it raises none.  A decoded JSON object
\* has string keys only, so 0 is never a key of it.
Index0Error(x) ==
    CASE x.t \in {"null", "num"} -> "TypeError"
      [] x.t = "dict" -> "KeyError"
      [] x.t \in {"str", "list"} -> IF Len(x.v) = 0 THEN "IndexError" ELSE ""

\* x[0] of a non-empty str or list
Index0(x) == IF x.t = "str" THEN PyStr(<<x.v[1]>>) ELSE x.v[1]

\* the exception x[:n] raises, "" when it raises none
SliceError(x) == IF x.t \in {"str", "list"} THEN "" ELSE "TypeError"

Min(a, b) == IF a < b THEN a ELSE b
Max(a, b) == IF a > b THEN a ELSE b

\* the elements a for loop over x[:n] visits, x a str or a list
SliceItems(x, n) ==
    IF x.t = "str"
    THEN [k \in 1..Min(n, Len(x.v)) |-> PyStr(<<x.v[k]>>)]
    ELSE SubSeq(x.v, 1, Min(n, Len(x.v)))

\* x == "1"
IsStr1(x) == x.t = "str" /\ x.v = <<"1">>

\* the keys of the provider's objects, in the order repr lists them here
KeyOrder == <<"status", "city", "adcode", "geocodes", "lives", "forecasts", "casts",
              "temperature", "humidity", "windpower", "winddirection", "weather",
              "visibility", "reporttime", "date", "week", "dayweather",
              "nightweather", "daytemp", "nighttemp">>

RECURSIVE Repr(_)
RECURSIVE ReprItems(_, _)
RECURSIVE ReprKeys(_, _, _)

\* repr(x)
Repr(x) ==
    CASE x.t = "null" -> <<"None">>
      [] x.t = "num" -> <<ToString(x.v)>>
      [] x.t = "str" -> <<"'">> \o x.v \o <<"'">>
      [] x.t = "list" -> <<"[">> \o ReprItems(x.v, 1) \o <<"]">>
      [] x.t = "dict" -> <<"{">> \o ReprKeys(x.v, 1, TRUE) \o <<"}">>

ReprItems(s, k) ==
    IF k > Len(s) THEN <<>>
    ELSE (IF k > 1 THEN <<", ">> ELSE <<>>) \o Repr(s[k]) \o ReprItems(s, k + 1)

ReprKeys(f, k, first) ==
    IF k > Len(KeyOrder) THEN <<>>
    ELSE IF KeyOrder[k] \in DOMAIN f
         THEN (IF first THEN <<>> ELSE <<", ">>)
              \o <<"'", KeyOrder[k], "'", ": ">> \o Repr(f[KeyOrder[k]])
              \o ReprKeys(f, k + 1, FALSE)
         ELSE ReprKeys(f, k + 1, first)

\* str(x), what an f-string puts in for {x}
Str(x) == IF x.t = "str" THEN x.v ELSE Repr(x)

-----------------------------------------------------------------------------
(* Texts *)

\* "\n".join(lines)
RECURSIVE JoinLines(_)
JoinLines(lines) ==
    IF Len(lines) = 0 THEN <<>>
    ELSE IF Len(lines) = 1 THEN lines[1]
    ELSE lines[1] \o <<"\n">> \o JoinLines(Tail(lines))

\* sub in text
Contains(text, sub) ==
    \E k \in 0..(Len(text) - Len(sub)) :
        \A j \in 1..Len(sub) : text[k + j] = sub[j]

\* the atoms of text that are in the set atoms, in order
Pick(text, atoms) == SelectSeq(text, LAMBDA a : a \in atoms)

\* an outcome of a call: a returned value or an exception that escapes it
Return(x) == [t |-> "return", v |-> x]
Raise(name) == [t |-> "raise", v |-> name]

-----------------------------------------------------------------------------
(* _format_weather_result *)

(* Fragments of the source's literals, written in ASCII *)
\* "无法获取"
CANNOT_GET == "cannot-get"
\* " 的天气信息"
WEATHER_INFO == " weather-info"
\* "未知"
UNKNOWN == "unknown"
\* "📍 ", "城市"
PIN == "[pin] "
L_CITY == "city"
\* "🌡️ ", "温度", "°C"
THERMOMETER == "[thermometer] "
L_TEMPERATURE == "temperature"
DEG_C == "degC"
\* "💧 ", "湿度"
DROPLET == "[droplet] "
L_HUMIDITY == "humidity"
\* "🌬️ ", "风力", "级"
WIND == "[wind] "
L_WINDPOWER == "windpower"
GRADE == "grade"
\* "☁️ ", "天气"
CLOUD == "[cloud] "
L_WEATHER == "weather"
\* "👁️ ", "能见度", "米"
EYE == "[eye] "
L_VISIBILITY == "visibility"
METRE == "metre"
\* "📊 ", "报告时间"
CHART == "[chart] "
L_REPORTTIME == "reporttime"
\* "📅 ", "天气预报"
CALENDAR == "[calendar] "
L_FORECAST == "forecast"
\* "  ", the indent that opens a forecast line
INDENT == "  "
\* " (周", "): ", "☀️", "°C / ", "🌙"
WEEK_OPEN == " (week"
WEEK_CLOSE == "): "
SUN == "[sun]"
DEG_C_SLASH == "degC / "
MOON == "[moon]"

\* the no-lives text with the default name for the city
NoLivesText_Unknown(city) == <<CANNOT_GET, " ", UNKNOWN, WEATHER_INFO>>

\* f"无法获取 {city} 的天气信息"
NoLivesText(city) == <<CANNOT_GET, " ">> \o Str(city) \o <<WEATHER_INFO>>

\* the seven lines of the report, from lives[0]
LiveLines(city, live) ==
    LET NA == PyStr(<<"N/A">>)
        E == PyStr(<<>>)
    IN << <<PIN, L_CITY, ": ">> \o Str(city),
          <<THERMOMETER, L_TEMPERATURE, ": ">> \o Str(Get(live, "temperature", NA))
              \o <<DEG_C>>,
          <<DROPLET, L_HUMIDITY, ": ">> \o Str(Get(live, "humidity", NA)) \o <<"%">>,
          <<WIND, L_WINDPOWER, ": ">> \o Str(Get(live, "windpower", NA)) \o <<" ">>
              \o Str(Get(live, "winddirection", E)) \o <<GRADE>>,
          <<CLOUD, L_WEATHER, ": ">> \o Str(Get(live, "weather", NA)),
          <<EYE, L_VISIBILITY, ": ">> \o Str(Get(live, "visibility", NA)) \o <<METRE>>,
          <<CHART, L_REPORTTIME, ": ">> \o Str(Get(live, "reporttime", NA)) >>

\* "\n📅 天气预报:"
ForecastHeader == <<"\n", CALENDAR, L_FORECAST, ":">>

\* f"  {date} (周{week}): ☀️{day_weather} {day_temp}°C / 🌙{night_weather} {night_temp}°C"
CastLine(cast) ==
    LET E == PyStr(<<>>)
    IN <<INDENT>> \o Str(Get(cast, "date", E)) \o <<WEEK_OPEN>>
       \o Str(Get(cast, "week", E)) \o <<WEEK_CLOSE, SUN>>
       \o Str(Get(cast, "dayweather", E)) \o <<" ">>
       \o Str(Get(cast, "daytemp", E)) \o <<DEG_C_SLASH, MOON>>
       \o Str(Get(cast, "nightweather", E)) \o <<" ">>
       \o Str(Get(cast, "nighttemp", E)) \o <<DEG_C>>

\* the loop over casts without the slice
ForecastSlice_All(casts) == SliceItems(casts, Len(casts.v))

\* casts[:3]
ForecastSlice(casts) == SliceItems(casts, FORECAST_SLICE)

\* the forecast section: the lines appended when include_forecast, or the
\* exception raised while building them
ForecastSection(data) ==
    LET forecasts == Get(data, "forecasts", PyList(<<>>))
    IN IF ~Truthy(forecasts) THEN Return(<<>>)
       ELSE IF Index0Error(forecasts) # "" THEN Raise(Index0Error(forecasts))
       ELSE LET forecast_data == Index0(forecasts)
            IN IF GetRaises(forecast_data) THEN Raise("AttributeError")
               ELSE LET casts == Get(forecast_data, "casts", PyList(<<>>))
                    IN IF ~Truthy(casts) THEN Return(<<>>)
                       ELSE IF SliceError(casts) # "" THEN Raise(SliceError(casts))
                       ELSE LET items == ForecastSlice(casts)
                            IN IF \E k \in 1..Len(items) : GetRaises(items[k])
                               THEN Raise("AttributeError")
                               ELSE Return(<<ForecastHeader>>
                                           \o [k \in 1..Len(items) |-> CastLine(items[k])])

\* _format_weather_result(data, include_forecast)
FormatWeatherResult(data, include_forecast) ==
    LET city == Get(data, "city", PyStr(<<UNKNOWN>>))
        lives == Get(data, "lives", PyList(<<>>))
    IN IF ~Truthy(lives) THEN Return(NoLivesText(city))
       ELSE IF Index0Error(lives) # "" THEN Raise(Index0Error(lives))
       ELSE LET live == Index0(lives)
            IN IF GetRaises(live) THEN Raise("AttributeError")
               ELSE IF ~include_forecast THEN Return(JoinLines(LiveLines(city, live)))
               ELSE LET section == ForecastSection(data)
                    IN IF section.t = "raise" THEN section
                       ELSE Return(JoinLines(LiveLines(city, live) \o section.v))

-----------------------------------------------------------------------------
(* Configuration and the provider *)

\* API_BASE_URL: default "https://restapi.amap.com/v3"
API_BASE_URL == "https://restapi.amap.com/v3"

\* config: WeatherConfig = plugin.get_config(WeatherConfig), with a key the
\* host supplies
Configs == {[API_KEY |-> <<"K">>, API_BASE_URL |-> API_BASE_URL, TIMEOUT |-> TIMEOUT]}

\* a key a JSON object does not carry
Absent == [t |-> "absent", v |-> 0]

\* the JSON object with the fields of f that are not Absent
MkDict(f) == PyDict([k \in {x \in DOMAIN f : f[x].t # "absent"} |-> f[k]])

\* an HTTP exchange as the client sees it: client.get raises (timeout,
\* connection error), the status is not 2xx, the body is no JSON, or a body
Response(outcome, body) == [outcome |-> outcome, body |-> body]
NoResponse == Response("none", None)
FailedResponses == {Response(o, None) : o \in {"transport_error", "status_error", "bad_json"}}

Chars(s) == PyStr(s)

\* one entry of lives, as the repository's test gives it
LiveFull ==
    MkDict([temperature |-> Chars(<<"2", "5">>), humidity |-> Chars(<<"5", "0">>),
            windpower |-> Chars(<<"3">>), winddirection |-> Chars(<<"N">>),
            weather |-> Chars(<<"s", "u", "n">>), visibility |-> Chars(<<"1", "0">>),
            reporttime |-> Chars(<<"1", "2", ":", "0", "0">>)])

\* an entry with fields missing, one a number and one null
LivePartial == MkDict([temperature |-> PyNum(25), humidity |-> None])

LivesShapes ==
    { Absent, None, PyList(<<>>), PyList(<<LiveFull>>), PyList(<<LivePartial, LiveFull>>),
      PyList(<<Chars(<<"x">>)>>), Chars(<<"a", "b">>), LiveFull, PyNum(5) }

DateAtoms == <<"d1", "d2", "d3", "d4", "d5", "d6", "d7", "d8">>

\* the k-th forecast day
Cast(k) ==
    MkDict([date |-> Chars(<<DateAtoms[k]>>), week |-> Chars(<<ToString(k)>>),
            dayweather |-> Chars(<<"s", "u", "n">>), nightweather |-> Chars(<<"f", "o", "g">>),
            daytemp |-> Chars(<<"2", "0">>), nighttemp |-> Chars(<<"9">>)])

\* the first n forecast days
Casts(n) == PyList([k \in 1..n |-> Cast(k)])

CastsShapes ==
    { Absent, Chars(<<"a", "b", "c", "d">>), PyNum(5), PyList(<<Chars(<<"x">>)>>),
      PyList(<<PyDict(EmptyDict), Cast(2)>>), Cast(1) }
    \cup { Casts(n) : n \in 0..MaxCasts }

ForecastsShapes ==
    { Absent, PyList(<<>>), PyList(<<Chars(<<"x">>)>>), Chars(<<"a", "b">>), PyNum(5),
      MkDict([casts |-> Casts(1)]) }
    \cup { PyList(<<MkDict([casts |-> c])>>) : c \in CastsShapes }

StatusShapes == { Absent, Chars(<<"1">>), Chars(<<"0">>) }

GeocodesShapes ==
    { Absent, PyList(<<>>), PyList(<<MkDict([adcode |-> Chars(<<"1", "1">>)])>>),
      PyList(<<PyDict(EmptyDict)>>),
      PyList(<<Chars(<<"x">>)>>), Chars(<<"a", "b">>),
      MkDict([adcode |-> Chars(<<"1", "1">>)]), PyNum(5) }

\* what the geocode endpoint may answer
GeoResponses ==
    FailedResponses \cup {Response("ok", PyList(<<>>))}
    \cup { Response("ok", MkDict([status |-> st, geocodes |-> g])) :
               st \in StatusShapes, g \in GeocodesShapes }

\* what the weather endpoint may answer
WeatherResponses ==
    FailedResponses \cup {Response("ok", PyList(<<>>))}
    \cup { Response("ok", MkDict([status |-> st, lives |-> lv, forecasts |-> fc])) :
               st \in StatusShapes, lv \in LivesShapes, fc \in ForecastsShapes }

-----------------------------------------------------------------------------
(* The arguments of the two actions *)

Whitespace == {" "}
CityChars == {" ", "k"}

RECURSIVE SeqsUpTo(_, _)
SeqsUpTo(S, n) ==
    IF n = 0 THEN {<<>>}
    ELSE LET shorter == SeqsUpTo(S, n - 1)
         IN shorter \cup {Append(s, c) : s \in {x \in shorter : Len(x) = n - 1}, c \in S}

Cities == SeqsUpTo(CityChars, MaxCityLen)
Days == (MIN_DAYS - DaysSlack)..(MAX_DAYS + DaysSlack)

\* city.strip()
RECURSIVE LStrip(_)
LStrip(s) == IF Len(s) > 0 /\ Head(s) \in Whitespace THEN LStrip(Tail(s)) ELSE s
RECURSIVE RStrip(_)
RStrip(s) ==
    IF Len(s) > 0 /\ s[Len(s)] \in Whitespace THEN RStrip(SubSeq(s, 1, Len(s) - 1)) ELSE s
Strip(s) == RStrip(LStrip(s))

\* the validation without the strip: not city
IsBlank_NoStrip(city) == Len(city) = 0

\* not city or not city.strip()
IsBlank(city) == Len(city) = 0 \/ Len(Strip(city)) = 0

\* the clamp without its lower end: min(days, 7)
ClampDays_NoLower(days) == Min(days, MAX_DAYS)

\* min(max(days, 1), 7)
ClampDays(days) == Min(Max(days, MIN_DAYS), MAX_DAYS)

-----------------------------------------------------------------------------
(* _get_weather_from_amap *)

\* the exception client.get, raise_for_status or json raises on resp, "" if none
ResponseError(resp) ==
    CASE resp.outcome = "transport_error" -> "RequestError"
      [] resp.outcome = "status_error" -> "HTTPStatusError"
      [] resp.outcome = "bad_json" -> "JSONDecodeError"
      [] OTHER -> ""

\* the city-not-found test with "and" for "or"
CityNotFound_And(geo_data) ==
    ~IsStr1(Get(geo_data, "status", None)) /\ ~Truthy(Get(geo_data, "geocodes", None))

\* geo_data.get("status") != "1" or not geo_data.get("geocodes")
CityNotFound(geo_data) ==
    ~IsStr1(Get(geo_data, "status", None)) \/ ~Truthy(Get(geo_data, "geocodes", None))

\* the no-weather-data test without its lives half
NoWeatherData_StatusOnly(weather_data) == ~IsStr1(Get(weather_data, "status", None))

\* weather_data.get("status") != "1" or not weather_data.get("lives")
NoWeatherData(weather_data) ==
    ~IsStr1(Get(weather_data, "status", None)) \/ ~Truthy(Get(weather_data, "lives", None))

\* what the code does with the geocode response: an exception, return None, or
\* go on to the weather request with city_code
Continue(x) == [t |-> "continue", v |-> x]

AfterGeocode(resp) ==
    IF ResponseError(resp) # "" THEN Raise(ResponseError(resp))
    ELSE LET geo_data == resp.body
         IN IF GetRaises(geo_data) THEN Raise("AttributeError")
            ELSE IF CityNotFound(geo_data) THEN Return(None)
            ELSE IF "geocodes" \notin DOMAIN geo_data.v THEN Raise("KeyError")
            ELSE LET geocodes == geo_data.v["geocodes"]
                 IN IF Index0Error(geocodes) # "" THEN Raise(Index0Error(geocodes))
                    ELSE IF GetRaises(Index0(geocodes)) THEN Raise("AttributeError")
                    ELSE Continue(Get(Index0(geocodes), "adcode", PyStr(<<>>)))

\* what the code does with the weather response: an exception, return None,
\* or return the data dict
AfterWeather(city, resp) ==
    IF ResponseError(resp) # "" THEN Raise(ResponseError(resp))
    ELSE LET weather_data == resp.body
         IN IF GetRaises(weather_data) THEN Raise("AttributeError")
            ELSE IF NoWeatherData(weather_data) THEN Return(None)
            ELSE Return(PyDict([city |-> PyStr(city),
                                lives |-> Get(weather_data, "lives", PyList(<<>>)),
                                forecasts |-> Get(weather_data, "forecasts", PyList(<<>>))]))

\* client.get(geo_url, params={"key": ..., "address": city})
GeoRequest(cfg, client, city) ==
    [url |-> <<cfg.API_BASE_URL, "/geocode/geo">>, client |-> client,
     params |-> [key |-> cfg.API_KEY, address |-> city]]

\* client.get(weather_url, params={"key": ..., "city": city_code, "extensions": "all"})
WeatherRequest(cfg, client, city_code) ==
    [url |-> <<cfg.API_BASE_URL, "/weather/weatherInfo">>, client |-> client,
     params |-> [key |-> cfg.API_KEY, city |-> city_code, extensions |-> "all"]]

IsGeoRequest(r) == r.url[2] = "/geocode/geo"
IsWeatherRequest(r) == r.url[2] = "/weather/weatherInfo"

(* Log lines *)
LogLine(level, msg) == [level |-> level, msg |-> msg]
\* logger.info(f"查询城市天气: {city}")
LogQuery(city) == LogLine("info", <<"query city weather: ">> \o city)
\* logger.info(f"查询城市天气预报: {city}, {days}天")
LogQueryForecast(city, days) ==
    LogLine("info", <<"query city forecast: ">> \o city \o <<", ", ToString(days), "days">>)
\* logger.warning(f"无法找到城市: {city}")
LogCityNotFound(city) == LogLine("warning", <<"cannot find city: ">> \o city)
\* logger.error(f"请求高德 API 失败: {e}"), logger.error(f"获取天气信息时发生错误: {e}")
LogException(name) ==
    IF name = "RequestError"
    THEN LogLine("error", <<"amap request failed: ", name>>)
    ELSE LogLine("error", <<"error while getting weather: ", name>>)
\* logger.info(f"成功获取 {city} 天气信息"), logger.info(f"成功获取 {city} 天气预报")
LogSuccess(name, city) ==
    LogLine("info", <<"got ">> \o city
                    \o <<IF name = "query_weather" THEN " weather info" ELSE " forecast">>)

\* the value _get_weather_from_amap returns once the with block is left with
\* exit: the except clauses turn every exception into None
ReturnedData(exit) == IF exit.t = "raise" THEN None ELSE exit.v

\* a client closed on the normal path only, and left open by an exception
ClientAfterExit_Leak(exit) == IF exit.t = "raise" THEN "open" ELSE "closed"

\* async with httpx.AsyncClient(...) as client: the client's state once the
\* block is left, however it is left
ClientAfterExit(exit) == "closed"

-----------------------------------------------------------------------------
(* query_weather and query_weather_forecast *)

\* "请提供有效的城市名称"
ValidationMsg == <<"please provide a valid city name">>

\* "❌ "
CROSS == "[x] "

\* the failure message without the city
FailureMsg_NoCity(name, city) == <<CROSS, CANNOT_GET, WEATHER_INFO>>

\* f"❌ 无法获取 {city} 的天气信息\n可能的原因:\n- 城市名称不正确\n- API Key 无效\n- 网络连接问题"
\* and f"❌ 无法获取 {city} 的天气信息"
FailureMsg(name, city) ==
    <<CROSS, CANNOT_GET, " ">> \o city \o <<WEATHER_INFO>>
    \o (IF name = "query_weather"
        THEN <<"\n", "possible causes:", "\n", "- wrong city name", "\n",
               "- invalid API key", "\n", "- network problem">>
        ELSE <<>>)

\* weather_data kept in a module-level name every invocation writes and reads
WeatherData_Shared(rec) ==
    LET holders == {j \in DOMAIN inv : inv[j].exit.t = "return" /\ inv[j].exit.v # None}
    IN IF holders # {}
       THEN inv[CHOOSE j \in holders : \A k \in holders : j <= k].exit.v
       ELSE ReturnedData(rec.exit)

\* the data the action passes on to the formatter: its local weather_data
WeatherData(rec) == ReturnedData(rec.exit)

\* the action's last lines: the failure message, or the formatted result,
\* whose exception nothing catches
ActionOutcome(rec) ==
    LET weather_data == WeatherData(rec)
    IN IF ~Truthy(weather_data) THEN Return(FailureMsg(rec.name, rec.city))
       ELSE FormatWeatherResult(weather_data, rec.name = "query_weather_forecast")

-----------------------------------------------------------------------------
(* The state machine: the host's invocations, each a coroutine that is       *)
(* suspended while a request is in flight and while its client closes        *)

NoOutcome == [t |-> "pending", v |-> 0]

Invocations == 1..NumInv

\* an invocation the host has not made yet.  days_arg is the days argument
\* (0 for query_weather, which has none), days the local after the clamp.
IdleRec ==
    [pc |-> "idle", name |-> "", city |-> <<>>, days_arg |-> 0, days |-> 0,
     client |-> 0, requests |-> <<>>, geo_resp |-> NoResponse,
     weather_resp |-> NoResponse, exit |-> NoOutcome, log |-> <<>>,
     result |-> NoOutcome]

\* the client an invocation constructs, named by the invocation: none yet
NoClient == [state |-> "none", timeout |-> 0]

IdleFmt == [called |-> FALSE, data |-> None, include_forecast |-> FALSE, out |-> NoOutcome]

Init ==
    /\ config \in Configs
    /\ inv = [i \in Invocations |-> IdleRec]
    /\ clients = [i \in Invocations |-> NoClient]
    /\ fmt = IdleFmt

\* the host calls query_weather(city) or query_weather_forecast(city, days):
\* the validation, the clamp, the first log line, the client of the with
\* block and the geocode request, up to the first await that suspends
Invoke(i, name, city, days) ==
    /\ inv[i].pc = "idle"
    /\ IF IsBlank(city)
       THEN /\ inv' = [inv EXCEPT ![i] = [@ EXCEPT !.pc = "done", !.name = name,
                                                   !.city = city, !.days_arg = days,
                                                   !.days = days,
                                                   !.result = Return(ValidationMsg)]]
            /\ UNCHANGED clients
       ELSE LET d == IF name = "query_weather_forecast" THEN ClampDays(days) ELSE days
                client == i
            IN /\ inv' = [inv EXCEPT ![i] =
                            [@ EXCEPT !.pc = "wait_geo", !.name = name, !.city = city,
                                      !.days_arg = days, !.days = d, !.client = client,
                                      !.log = <<IF name = "query_weather_forecast"
                                                THEN LogQueryForecast(city, d)
                                                ELSE LogQuery(city)>>,
                                      !.requests = <<GeoRequest(config, client, Strip(city))>>]]
               /\ clients' = [clients EXCEPT ![client] =
                                [state |-> "open", timeout |-> config.TIMEOUT]]
    /\ UNCHANGED <<config, fmt>>

\* the geocode exchange ends: the code runs on to the weather request, or
\* leaves the with block
GeoResponse(i, resp) ==
    /\ inv[i].pc = "wait_geo"
    /\ LET out == AfterGeocode(resp)
       IN inv' = [inv EXCEPT ![i] =
                    IF out.t = "continue"
                    THEN [@ EXCEPT !.pc = "wait_weather", !.geo_resp = resp,
                                   !.requests = Append(@, WeatherRequest(config, inv[i].client, out.v))]
                    ELSE [@ EXCEPT !.pc = "closing", !.geo_resp = resp, !.exit = out,
                                   !.log = IF out.t = "return"
                                           THEN Append(@, LogCityNotFound(Strip(inv[i].city)))
                                           ELSE @]]
    /\ UNCHANGED <<config, clients, fmt>>

\* the weather exchange ends: the code leaves the with block
WeatherResponse(i, resp) ==
    /\ inv[i].pc = "wait_weather"
    /\ inv' = [inv EXCEPT ![i] = [@ EXCEPT !.pc = "closing", !.weather_resp = resp,
                                           !.exit = AfterWeather(Strip(inv[i].city), resp)]]
    /\ UNCHANGED <<config, clients, fmt>>

\* the client has closed: the except clauses, the return to the action, the
\* failure message or the formatted result
Finish(i) ==
    /\ inv[i].pc = "closing"
    /\ LET rec == inv[i]
           out == ActionOutcome(rec)
           log1 == IF rec.exit.t = "raise" THEN Append(rec.log, LogException(rec.exit.v))
                   ELSE rec.log
           log2 == IF out.t = "return" /\ Truthy(WeatherData(rec))
                   THEN Append(log1, LogSuccess(rec.name, rec.city))
                   ELSE log1
       IN /\ inv' = [inv EXCEPT ![i] = [@ EXCEPT !.pc = "done", !.result = out, !.log = log2]]
          /\ clients' = [clients EXCEPT ![rec.client].state = ClientAfterExit(rec.exit)]
    /\ UNCHANGED <<config, fmt>>

\* a direct call of _format_weather_result, as the tests make it
FormatCall(data, include_forecast) ==
    /\ ~fmt.called
    /\ fmt' = [called |-> TRUE, data |-> data, include_forecast |-> include_forecast,
               out |-> FormatWeatherResult(data, include_forecast)]
    /\ UNCHANGED <<config, inv, clients>>

(* One invocation, every argument and every provider behaviour *)

InvokeArgs ==
    {[name |-> "query_weather", city |-> c, days |-> 0] : c \in Cities}
    \cup {[name |-> "query_weather_forecast", city |-> c, days |-> d] : c \in Cities, d \in Days}

Next ==
    \/ \E a \in InvokeArgs : Invoke(1, a.name, a.city, a.days)
    \/ \E resp \in GeoResponses : GeoResponse(1, resp)
    \/ \E resp \in WeatherResponses : WeatherResponse(1, resp)
    \/ Finish(1)

Spec == Init /\ [][Next]_vars

(* Several invocations in flight at once, on a few arguments and provider   *)
(* behaviours that take every exit of the pipeline                          *)

ConcArgs ==
    { [name |-> "query_weather", city |-> <<" ", "k">>, days |-> 0],
      [name |-> "query_weather", city |-> <<" ">>, days |-> 0],
      [name |-> "query_weather_forecast", city |-> <<"k">>, days |-> MIN_DAYS - DaysSlack],
      [name |-> "query_weather_forecast", city |-> <<"k">>, days |-> MIN_DAYS],
      [name |-> "query_weather_forecast", city |-> <<"k">>, days |-> MAX_DAYS],
      [name |-> "query_weather_forecast", city |-> <<"k">>, days |-> MAX_DAYS + DaysSlack] }

ConcGeoResponses ==
    { Response("transport_error", None), Response("status_error", None),
      Response("ok", MkDict([status |-> Chars(<<"0">>), geocodes |-> PyList(<<>>)])),
      Response("ok", MkDict([status |-> Chars(<<"1">>),
                             geocodes |-> PyList(<<MkDict([adcode |-> Chars(<<"1", "1">>)])>>)])) }

ConcWeatherResponses ==
    { Response("bad_json", None),
      Response("ok", MkDict([status |-> Chars(<<"1">>), lives |-> PyList(<<>>),
                             forecasts |-> PyList(<<MkDict([casts |-> Casts(1)])>>)])),
      Response("ok", MkDict([status |-> Chars(<<"1">>), lives |-> PyList(<<LiveFull>>),
                             forecasts |-> PyList(<<MkDict([casts |-> Casts(MaxCasts)])>>)])) }

NextConc ==
    \/ \E i \in Invocations, a \in ConcArgs : Invoke(i, a.name, a.city, a.days)
    \/ \E i \in Invocations, resp \in ConcGeoResponses : GeoResponse(i, resp)
    \/ \E i \in Invocations, resp \in ConcWeatherResponses : WeatherResponse(i, resp)
    \/ \E i \in Invocations : Finish(i)

SpecConc == Init /\ [][NextConc]_vars

(* _format_weather_result alone, on every shape of data *)

FormatData ==
    { MkDict([city |-> c, lives |-> lv, forecasts |-> fc]) :
          c \in {Absent, Chars(<<"k">>)}, lv \in LivesShapes, fc \in ForecastsShapes }

NextFormat == \E data \in FormatData, include_forecast \in BOOLEAN :
                  FormatCall(data, include_forecast)

SpecFormat == Init /\ [][NextFormat]_vars

-----------------------------------------------------------------------------
(* Vocabulary of the properties *)

Done(i) == inv[i].pc = "done"
Invoked(i) == inv[i].pc # "idle"

\* empty, or whitespace only
OnlyWhitespace(city) == \A k \in 1..Len(city) : city[k] \in Whitespace

\* the fragments only a weather report carries
ReportAtoms ==
    { PIN, L_CITY, THERMOMETER, L_TEMPERATURE, DEG_C, DROPLET, L_HUMIDITY, WIND,
      L_WINDPOWER, GRADE, CLOUD, L_WEATHER, EYE, L_VISIBILITY, METRE, CHART,
      L_REPORTTIME, CALENDAR, L_FORECAST, INDENT, WEEK_OPEN, WEEK_CLOSE, SUN,
      DEG_C_SLASH, MOON }

HasReportPart(text) == \E k \in 1..Len(text) : text[k] \in ReportAtoms

\* the forecast lines of a text, counted by the indent that opens each
ForecastLineCount(text) == Len(Pick(text, {INDENT}))

\* x is a non-empty list
NonEmptyList(x) == x.t = "list" /\ Len(x.v) > 0

\* field key of a JSON body, None when the body is no object or lacks it
Field(body, key) ==
    IF body.t = "dict" /\ key \in DOMAIN body.v THEN body.v[key] ELSE None

\* the response arrived without transport or status error and decoded to JSON
Arrived(resp) == resp.outcome = "ok"

-----------------------------------------------------------------------------
\* C1: every invocation of query_weather and of query_weather_forecast ends by
\* returning a text, and never lets an exception escape to the host, whatever
\* the city, the days and the provider's behaviour.
C1_NeverRaises == \A i \in Invocations : Done(i) => inv[i].result.t = "return"

\* C2: when city is empty or whitespace only, both actions return the
\* validation message and issue no HTTP request and open no client.
C2_BlankCityRejected ==
    \A i \in Invocations :
        (Invoked(i) /\ OnlyWhitespace(inv[i].city)) =>
            /\ Done(i)
            /\ inv[i].result = Return(ValidationMsg)
            /\ inv[i].requests = <<>>
            /\ inv[i].client = 0
            /\ clients[i] = NoClient

C2_Witness ==
    \E i \in Invocations :
        /\ Done(i)
        /\ Len(inv[i].city) > 0
        /\ OnlyWhitespace(inv[i].city)
        /\ inv[i].name = "query_weather_forecast"

\* C3: an invocation issues at most one geocode request and at most one
\* weather request, the geocode request first; the weather request only after
\* a geocode response that arrived, has status "1" and a non-empty geocodes
\* list; once a step has failed, no further request is issued and none is
\* repeated.
C3_RequestPipeline ==
    \A i \in Invocations :
        LET r == inv[i].requests
            left == inv[i].pc \in {"closing", "done"}
        IN /\ Len(r) <= 2
           /\ Len(r) >= 1 => IsGeoRequest(r[1])
           /\ Len(r) = 2 =>
                /\ IsWeatherRequest(r[2])
                /\ Arrived(inv[i].geo_resp)
                /\ IsStr1(Field(inv[i].geo_resp.body, "status"))
                /\ NonEmptyList(Field(inv[i].geo_resp.body, "geocodes"))
           /\ (left /\ inv[i].geo_resp # NoResponse /\ inv[i].weather_resp = NoResponse)
                => Len(r) = 1
           /\ (left /\ inv[i].weather_resp # NoResponse) => Len(r) = 2

C3_Witness ==
    \E i \in Invocations :
        /\ Done(i)
        /\ Len(inv[i].requests) = 2
        /\ inv[i].weather_resp.outcome = "status_error"

\* C4: a formatted report is returned only when the weather response has
\* status "1" and a non-empty lives list; with lives absent or empty the
\* invocation returns the failure message even when the response carries
\* forecasts; the data passed to the formatter has non-empty lives, and the
\* formatter's no-lives text is never what an action returns.
C4_ReportNeedsLives ==
    \A i \in Invocations :
        LET rec == inv[i]
            body == rec.weather_resp.body
            lives == Field(body, "lives")
        IN Done(i) =>
            /\ (rec.result.t = "return" /\ HasReportPart(rec.result.v)) =>
                 /\ Arrived(rec.weather_resp)
                 /\ IsStr1(Field(body, "status"))
                 /\ NonEmptyList(lives)
            /\ (Arrived(rec.weather_resp) /\ body.t = "dict"
                /\ (lives = None \/ (lives.t = "list" /\ Len(lives.v) = 0))) =>
                 rec.result = Return(FailureMsg(rec.name, rec.city))
            /\ (rec.exit.t = "return" /\ rec.exit.v # None) =>
                 Truthy(rec.exit.v.v["lives"])
            /\ rec.result # Return(NoLivesText(PyStr(Strip(rec.city))))

C4_Witness ==
    \E i \in Invocations :
        /\ Done(i)
        /\ Arrived(inv[i].weather_resp)
        /\ IsStr1(Field(inv[i].weather_resp.body, "status"))
        /\ Field(inv[i].weather_resp.body, "lives") = PyList(<<>>)
        /\ Field(inv[i].weather_resp.body, "forecasts") = PyList(<<MkDict([casts |-> Casts(2)])>>)
        /\ inv[i].result = Return(FailureMsg(inv[i].name, inv[i].city))

\* the geocode response has a status other than "1" or an empty geocodes list
GeoNoMatch(resp) ==
    /\ Arrived(resp)
    /\ resp.body.t = "dict"
    /\ \/ ~IsStr1(Field(resp.body, "status"))
       \/ Field(resp.body, "geocodes") = None
       \/ Field(resp.body, "geocodes") = PyList(<<>>)

\* C5: for a city that is non-empty after trimming, when the geocode response
\* has a status other than "1" or an empty geocodes list, query_weather
\* returns a text with the city name and the failure indicator and with no
\* part of a weather report.
C5_CityNotFoundMessage ==
    \A i \in Invocations :
        (Done(i) /\ inv[i].name = "query_weather" /\ ~OnlyWhitespace(inv[i].city)
         /\ GeoNoMatch(inv[i].geo_resp)) =>
            /\ inv[i].result.t = "return"
            /\ Contains(inv[i].result.v, Strip(inv[i].city))
            /\ Contains(inv[i].result.v, <<CROSS, CANNOT_GET>>)
            /\ ~HasReportPart(inv[i].result.v)

C5_Witness ==
    \E i \in Invocations :
        /\ Done(i)
        /\ inv[i].name = "query_weather"
        /\ inv[i].city = <<" ", "k">>
        /\ GeoNoMatch(inv[i].geo_resp)
        /\ Field(inv[i].geo_resp.body, "status") = Chars(<<"0">>)
        /\ NonEmptyList(Field(inv[i].geo_resp.body, "geocodes"))

\* lives is a non-empty list whose first entry is an object
LivesWellFormed(data) ==
    LET lives == Field(data, "lives")
    IN NonEmptyList(lives) /\ lives.v[1].t = "dict"

\* the forecast day entries of data: the casts of forecasts[0] when that is a
\* list of objects, <<>> when the data carries no forecast
DayEntries(data) ==
    LET forecasts == Field(data, "forecasts")
    IN IF NonEmptyList(forecasts) /\ forecasts.v[1].t = "dict"
          /\ Field(forecasts.v[1], "casts").t = "list"
       THEN Field(forecasts.v[1], "casts").v
       ELSE <<>>

\* forecasts is absent or empty, or its first entry is an object whose casts
\* are absent or a list of objects
ForecastsWellFormed(data) ==
    LET forecasts == Field(data, "forecasts")
    IN \/ forecasts = None
       \/ forecasts = PyList(<<>>)
       \/ /\ NonEmptyList(forecasts)
          /\ forecasts.v[1].t = "dict"
          /\ Field(forecasts.v[1], "casts").t \in {"null", "list"}
          /\ \A k \in 1..Len(DayEntries(data)) : DayEntries(data)[k].t = "dict"

\* the dates of the first m entries, in order
RECURSIVE DatesOf(_, _)
DatesOf(entries, m) ==
    IF m = 0 THEN <<>>
    ELSE DatesOf(entries, m - 1) \o Str(Field(entries[m], "date"))

DateSet == {DateAtoms[k] : k \in 1..Len(DateAtoms)}

\* C6: with include_forecast, on a report with non-empty lives and n forecast
\* day entries, the formatter renders exactly min(n, 3) forecast lines, those
\* of the first entries in the provider's order (3 lines when n >= 4), under
\* one header when n > 0; without include_forecast it renders no forecast
\* header and no forecast line, whatever the forecasts.
C6_ForecastLines ==
    (fmt.called /\ LivesWellFormed(fmt.data)) =>
        LET entries == DayEntries(fmt.data)
            n == Len(entries)
            m == IF n < 3 THEN n ELSE 3
        IN /\ ~fmt.include_forecast =>
                /\ fmt.out.t = "return"
                /\ Pick(fmt.out.v, {CALENDAR, L_FORECAST, INDENT} \cup DateSet) = <<>>
           /\ (fmt.include_forecast /\ ForecastsWellFormed(fmt.data)) =>
                /\ fmt.out.t = "return"
                /\ ForecastLineCount(fmt.out.v) = m
                /\ Pick(fmt.out.v, DateSet) = Pick(DatesOf(entries, m), DateSet)
                /\ Len(Pick(fmt.out.v, {CALENDAR})) = (IF n > 0 THEN 1 ELSE 0)

C6_Witness ==
    /\ fmt.called
    /\ fmt.include_forecast
    /\ LivesWellFormed(fmt.data)
    /\ ForecastsWellFormed(fmt.data)
    /\ Len(DayEntries(fmt.data)) >= 4
    /\ ForecastLineCount(fmt.out.v) = 3
    /\ Pick(fmt.out.v, DateSet) = <<"d1", "d2", "d3">>

\* days brought into [1,7]
Clamped(d) == IF d < 1 THEN 1 ELSE IF d > 7 THEN 7 ELSE d

\* a request without the client that carried it
Sent(r) == [url |-> r.url, params |-> r.params]

C8_NoLivesMessage ==
    (fmt.called /\ "city" \in DOMAIN fmt.data.v
     /\ (Field(fmt.data, "lives") = None \/ Field(fmt.data, "lives") = PyList(<<>>))) =>
        /\ fmt.out.t = "return"
        /\ Contains(fmt.out.v, <<CANNOT_GET>>)
        /\ Contains(fmt.out.v, fmt.data.v["city"].v)
        /\ ~HasReportPart(fmt.out.v)

C8_Witness ==
    /\ fmt.called
    /\ fmt.include_forecast
    /\ Field(fmt.data, "lives") = PyList(<<>>)
    /\ "city" \in DOMAIN fmt.data.v
    /\ Len(DayEntries(fmt.data)) = 3

\* C9: the client an invocation opens is closed when the invocation ends, on
\* every exit of the pipeline; no invocation returns with its client open, no
\* client stays open once its invocation is over, and none is shared.
C9_ClientClosed ==
    \A i \in Invocations :
        /\ Done(i) => clients[i].state \in {"none", "closed"}
        /\ (Done(i) /\ ~OnlyWhitespace(inv[i].city)) => clients[i].state = "closed"
        /\ clients[i].state = "open" => inv[i].pc \in {"wait_geo", "wait_weather", "closing"}
        /\ inv[i].pc \in {"wait_geo", "wait_weather", "closing"} => clients[i].state = "open"
        /\ \A k \in 1..Len(inv[i].requests) : inv[i].requests[k].client = i

C9_Witness ==
    \E i, j \in Invocations :
        /\ Done(i)
        /\ inv[i].exit = Raise("JSONDecodeError")
        /\ clients[i].state = "closed"
        /\ inv[j].pc = "wait_weather"
        /\ clients[j].state = "open"

\* what the invocation returns when it runs alone: a function of its own
\* arguments and of the responses to its own requests
RunAlone(rec) ==
    IF OnlyWhitespace(rec.city) THEN Return(ValidationMsg)
    ELSE LET geo == AfterGeocode(rec.geo_resp)
             out == IF geo.t = "continue"
                    THEN AfterWeather(Strip(rec.city), rec.weather_resp)
                    ELSE geo
         IN IF out.t = "raise" \/ out.v = None
            THEN Return(FailureMsg(rec.name, rec.city))
            ELSE FormatWeatherResult(out.v, rec.name = "query_weather_forecast")

\* the requests the invocation issues when it runs alone
RequestsAlone(rec) ==
    IF OnlyWhitespace(rec.city) THEN <<>>
    ELSE <<Sent(GeoRequest(config, 0, Strip(rec.city)))>>
         \o (IF rec.geo_resp # NoResponse /\ AfterGeocode(rec.geo_resp).t = "continue"
             THEN <<Sent(WeatherRequest(config, 0, AfterGeocode(rec.geo_resp).v))>>
             ELSE <<>>)

C10_OwnInputsOnly ==
    \A i \in Invocations :
        /\ Done(i) => inv[i].result = RunAlone(inv[i])
        /\ Invoked(i) =>
             [k \in 1..Len(inv[i].requests) |-> Sent(inv[i].requests[k])]
             = RequestsAlone(inv[i])

\* a step of one invocation leaves every other invocation, every other
\* invocation's client and the configuration as they were
C10_Frame ==
    /\ config' = config
    /\ \A i, j \in Invocations : (inv'[i] # inv[i] /\ j # i) => inv'[j] = inv[j]
    /\ \A i \in Invocations : clients'[i] # clients[i] => inv'[i] # inv[i]

\* C10: concurrent invocations are independent: under every interleaving each
\* invocation's result and requests are those it produces alone from its own
\* arguments, the configuration and the responses to its own requests, and
\* no step of one invocation writes what another invocation holds.
C10_Independent == []C10_OwnInputsOnly /\ [][C10_Frame]_vars

C10_Witness ==
    \E i, j \in Invocations :
        /\ Done(i)
        /\ inv[j].pc = "wait_weather"
        /\ inv[i].name # inv[j].name
        /\ inv[i].result.t = "return"
        /\ HasReportPart(inv[i].result.v)

====
